---- MODULE Spec2Model ----
(***************************************************************************)
(* StandardBot (standard_v1.py): a simulated trading bot.                  *)
(*                                                                         *)
(* Numbers.  The program computes in floating point.  The model computes   *)
(* in fixed point: every fraction (returns, thresholds, multipliers,       *)
(* confidences, percentages) is an integer number of basis points          *)
(* (1 bp = 0.0001, so 1.0 = BP), every amount of money is an integer       *)
(* number of cents, and every product of an amount or a fraction with a    *)
(* fraction is rounded down to the unit (x * f \div BP), one rounding per  *)
(* multiplication, in the order in which the program multiplies.           *)
(* Comparisons of a ratio with a threshold (daily_profit / capital >=      *)
(* target_return) are made exactly, by cross-multiplication.               *)
(* Timestamps and dates of the records are left out.                       *)
(***************************************************************************)
EXTENDS Integers, Sequences, FiniteSets

BP == 100 * 100

Max(a, b) == IF a >= b THEN a ELSE b
Min(a, b) == IF a <= b THEN a ELSE b
Abs(a) == IF a < 0 THEN 0 - a ELSE a

\* x * f for a fraction f in basis points
Mul(x, f) == (x * f) \div BP

\* signal.get(key, default)
Get(signal, key, default) == IF key \in DOMAIN signal THEN signal[key] ELSE default

(***************************************************************************)
(* Bounds of the model                                                     *)
(***************************************************************************)
MaxHistory == 3
MaxDays == 2

(***************************************************************************)
(* Constants of the program, in basis points                               *)
(***************************************************************************)
emergency_stop_dd == 450
size_reduction_dd == 350
MaxSizeFraction == 400
MinSizeFraction == 50
MinKelly == 100
ProfitCap == 450
LossCap == 250

(***************************************************************************)
(* Configurations (the keyword arguments of the constructor)               *)
(***************************************************************************)
DefaultConfig ==
    [capital |-> 100000, target_return |-> 200, max_target_return |-> 500,
     max_dd |-> 500, stop_loss |-> 100, max_risk_per_trade |-> 300,
     max_trades_daily |-> 12, use_ai_sizing |-> TRUE,
     confidence_threshold |-> 6500, regime_adaptation |-> TRUE]

\* small targets and limits, so that every gate of trade() is met within a
\* few trades
TightConfig ==
    [DefaultConfig EXCEPT !.target_return = 10, !.max_target_return = 15,
                          !.max_dd = 4, !.max_trades_daily = 2]

Configs == {DefaultConfig, TightConfig}

(***************************************************************************)
(* Signals                                                                 *)
(***************************************************************************)
\* the scenario signal of the specification; sized by the Kelly fraction
SigBull ==
    [score |-> 9000, volatility |-> 500, trend |-> 5000,
     support_resistance |-> 8000, ai_confidence |-> 9000,
     regime |-> "trending_bull", volume_ratio |-> 10000, spread |-> 10]

\* explicit position size, large enough to meet the 4% ceiling
SigHighVol ==
    [score |-> 8500, volatility |-> 1000, trend |-> 0 - 7000,
     support_resistance |-> 6000, ai_confidence |-> 6500,
     regime |-> "high_volatility", position_size |-> 5000]

\* explicit negative position size
SigNegative ==
    [score |-> 7000, volatility |-> 300, trend |-> 4000,
     support_resistance |-> 6000, ai_confidence |-> 7000,
     position_size |-> 0 - 5000]

\* rejected by the filter (score and confidence too low)
SigWeak ==
    [score |-> 5000, volatility |-> 500, trend |-> 5000,
     support_resistance |-> 8000, regime |-> "sideways"]

\* low win probability: the Kelly fraction is not cut by max_risk
SigKelly ==
    [win_probability |-> 3000, avg_win |-> 250, ai_confidence |-> 5000]

\* explicit position size of zero
SigZero == [position_size |-> 0, ai_confidence |-> 10000]

TradeSignals == {SigBull, SigHighVol, SigWeak}
SizeSignals == {SigBull, SigHighVol, SigNegative, SigKelly, SigZero}

NoSignal == [none |-> TRUE]

\* random.uniform(0.015, 0.035)
ProfitDraws == {150, 350}

VARIABLES cfg, capital, initial_capital, peak_capital, daily_profit,
          trades_today, trade_history, daily_pnl_history,
          best_daily_return, worst_daily_return,
          op, sig, ret, mark

state == <<capital, initial_capital, peak_capital, daily_profit, trades_today,
           trade_history, daily_pnl_history, best_daily_return,
           worst_daily_return>>
vars == <<cfg, capital, initial_capital, peak_capital, daily_profit,
          trades_today, trade_history, daily_pnl_history,
          best_daily_return, worst_daily_return, op, sig, ret, mark>>

\* StandardBot.__init__
Init ==
    /\ cfg \in Configs
    /\ capital = cfg.capital
    /\ initial_capital = cfg.capital
    /\ daily_profit = 0
    /\ trades_today = 0
    /\ trade_history = <<>>
    /\ daily_pnl_history = <<>>
    /\ best_daily_return = 0
    /\ worst_daily_return = 0
    /\ peak_capital = cfg.capital
    /\ op = "init"
    /\ sig = NoSignal
    /\ ret = 0
    /\ mark = 0

(***************************************************************************)
(* check_trade_conditions                                                  *)
(***************************************************************************)
\* regime_requirements.get(regime, {'min_score': 0.6, 'min_trend': 0.35})
RegimeReq(regime) ==
    CASE regime = "trending_bull" -> [min_score |-> 5500, min_trend |-> 3000]
      [] regime = "trending_bear" -> [min_score |-> 6500, min_trend |-> 4000]
      [] regime = "sideways" -> [min_score |-> 7500, min_trend |-> 5000]
      [] regime = "high_volatility" -> [min_score |-> 8000, min_trend |-> 6000]
      [] regime = "low_volatility" -> [min_score |-> 5000, min_trend |-> 2500]
      [] OTHER -> [min_score |-> 6000, min_trend |-> 3500]

check_trade_conditions(signal) ==
    LET score == Get(signal, "score", 0)
        volatility == Get(signal, "volatility", 0)
        trend == Get(signal, "trend", 0)
        support_resistance == Get(signal, "support_resistance", 0)
        ai_confidence == Get(signal, "ai_confidence", 5000)
        regime == Get(signal, "regime", "unknown")
        regime_req == RegimeReq(regime)
        score_ok == IF cfg.regime_adaptation
                    THEN score > regime_req.min_score ELSE score > 6000
        vol_ok == 150 < volatility /\ volatility < 1200
        trend_ok == IF cfg.regime_adaptation
                    THEN Abs(trend) > regime_req.min_trend
                    ELSE Abs(trend) > 3500
        sr_ok == support_resistance > 5000
        confidence_ok == ai_confidence >= cfg.confidence_threshold
        volume_ok == Get(signal, "volume_ratio", 10000) > 8000
        spread_ok == Get(signal, "spread", 10) < 50
    IN  score_ok /\ vol_ok /\ trend_ok /\ sr_ok /\ confidence_ok
        /\ volume_ok /\ spread_ok

(***************************************************************************)
(* calculate_position_size                                                 *)
(***************************************************************************)
\* base_size: the explicit fraction of the signal, or the Kelly fraction
BaseSize(signal) ==
    IF cfg.use_ai_sizing /\ "position_size" \in DOMAIN signal
    THEN Mul(signal["position_size"], capital)
    ELSE LET win_rate == Get(signal, "win_probability", 6500)
             avg_win == Get(signal, "avg_win", 250)
             avg_loss == cfg.stop_loss
             kelly0 == (win_rate * avg_win - (BP - win_rate) * avg_loss)
                           \div avg_win
             kelly == Max(MinKelly, Min(kelly0, cfg.max_risk_per_trade))
         IN  Mul(capital, kelly)

\* confidence_mult = 0.5 + (confidence * 0.5)
ConfidenceMult(signal) == 5000 + Mul(Get(signal, "ai_confidence", 5000), 5000)

\* daily_return >= frac * target_return, where daily_return is
\* daily_profit / capital if capital > 0 and 0 otherwise; frac in tenths
DailyReturnAtLeast(tenths, target) ==
    IF capital > 0
    THEN daily_profit * BP * 10 >= tenths * target * capital
    ELSE 0 >= tenths * target

DailyMult ==
    IF DailyReturnAtLeast(8, cfg.target_return) THEN 5000
    ELSE IF DailyReturnAtLeast(6, cfg.target_return) THEN 7000
    ELSE BP

\* dd_mult = max(0.5, 1 - (current_dd * 2))
DdMult ==
    Max(5000, ((2 * capital - initial_capital) * BP) \div initial_capital)

\* peak_mult = max(0.6, 1 - peak_distance)
PeakMult ==
    IF peak_capital > 0
    THEN Max(6000, (capital * BP) \div peak_capital)
    ELSE BP

\* current_dd > threshold, current_dd = (initial - capital) / initial
CurrentDdAbove(threshold) ==
    (initial_capital - capital) * BP > threshold * initial_capital

SizeReductionFactor ==
    IF CurrentDdAbove(size_reduction_dd) THEN 6000 ELSE BP

\* mutant: the floor of 0.5% is not applied
ClampSize_NoFloor(size) == Min(size, Mul(capital, MaxSizeFraction))

\* the two bounds applied last: min(.., capital * 0.04), max(.., capital * 0.005)
ClampSize(size) ==
    Max(Min(size, Mul(capital, MaxSizeFraction)), Mul(capital, MinSizeFraction))

\* final_size before the bounds
UnboundedSize(signal) ==
    Mul(Mul(Mul(Mul(BaseSize(signal), ConfidenceMult(signal)), DdMult),
            PeakMult), SizeReductionFactor)

calculate_position_size(signal) == ClampSize(UnboundedSize(signal))

(***************************************************************************)
(* trade                                                                   *)
(***************************************************************************)
\* mutant: the limit is tested with > in place of >=
LimitReached_OffByOne == trades_today > cfg.max_trades_daily

\* self.trades_today >= self.max_trades_daily
LimitReached == trades_today >= cfg.max_trades_daily

\* target_achieved = daily_return >= self.target_return
TargetAchieved == DailyReturnAtLeast(10, cfg.target_return)

\* daily_return >= self.max_target_return
MaxTargetAchieved == DailyReturnAtLeast(10, cfg.max_target_return)

\* mutant: the gate tests the emergency threshold in place of max_dd
DrawdownExceeded_Emergency == CurrentDdAbove(emergency_stop_dd)

\* mutant: the gate tests the loss of the day, which a reset clears
DrawdownExceeded_Daily ==
    (0 - daily_profit) * BP > cfg.max_dd * initial_capital

\* current_dd > self.max_dd
DrawdownExceeded == CurrentDdAbove(cfg.max_dd)

RegimeAdjustment(regime) ==
    CASE regime = "trending_bull" -> 11000
      [] regime = "trending_bear" -> 10500
      [] regime = "sideways" -> 9500
      [] regime = "high_volatility" -> 8500
      [] regime = "low_volatility" -> 11500
      [] OTHER -> BP

\* success_prob = min(0.85, max(0.50, (0.55 + confidence * 0.25) * adjustment))
SuccessProb(confidence, regime) ==
    Min(8500, Max(5000, Mul(5500 + Mul(confidence, 2500),
                            RegimeAdjustment(regime))))

RegimeProfitBonus(regime) ==
    CASE regime = "trending_bull" -> 12000
      [] regime = "trending_bear" -> 11000
      [] regime = "sideways" -> 9000
      [] regime = "high_volatility" -> 11000
      [] regime = "low_volatility" -> BP
      [] OTHER -> BP

\* final_profit_pct for a drawn base_profit_pct
FinalProfitPct(base_profit_pct, confidence, regime) ==
    LET confidence_bonus == BP + Mul(confidence - 5000, 2000)
    IN  Min(ProfitCap, Mul(Mul(base_profit_pct, confidence_bonus),
                           RegimeProfitBonus(regime)))

RegimeLossAdj(regime) ==
    CASE regime = "trending_bull" -> 9000
      [] regime = "trending_bear" -> BP
      [] regime = "sideways" -> 11000
      [] regime = "high_volatility" -> 13000
      [] regime = "low_volatility" -> 8000
      [] OTHER -> BP

AdjustedLossPct(regime) == Min(LossCap, Mul(cfg.stop_loss, RegimeLossAdj(regime)))

\* mutant: the peak is never raised
UpdatePeak_Stale(new_capital) == peak_capital

\* if self.capital > self.peak_capital: self.peak_capital = self.capital
UpdatePeak(new_capital) ==
    IF new_capital > peak_capital THEN new_capital ELSE peak_capital

WinRecord(position_size, profit, final_profit_pct, confidence, regime) ==
    [type |-> "WIN", size |-> position_size, profit |-> profit,
     profit_pct |-> final_profit_pct, confidence |-> confidence,
     regime |-> regime]

\* mutant: the record logs the position size as the loss
LossRecord_WrongAmount(position_size, loss, adjusted_loss_pct, confidence, regime) ==
    [type |-> "LOSS", size |-> position_size, loss |-> position_size,
     loss_pct |-> adjusted_loss_pct, confidence |-> confidence,
     regime |-> regime]

LossRecord(position_size, loss, adjusted_loss_pct, confidence, regime) ==
    [type |-> "LOSS", size |-> position_size, loss |-> loss,
     loss_pct |-> adjusted_loss_pct, confidence |-> confidence,
     regime |-> regime]

\* an early return of trade(): a message and no assignment
Return(message) ==
    /\ op' = message
    /\ sig' = NoSignal
    /\ ret' = 0
    /\ UNCHANGED <<cfg, state, mark>>

\* the winning branch, for one draw of random.uniform
Win(signal, base_profit_pct) ==
    LET position_size == calculate_position_size(signal)
        confidence == Get(signal, "ai_confidence", 5000)
        regime == Get(signal, "regime", "unknown")
        final_profit_pct == FinalProfitPct(base_profit_pct, confidence, regime)
        profit == Mul(position_size, final_profit_pct)
    IN  /\ capital' = capital + profit
        /\ daily_profit' = daily_profit + profit
        /\ peak_capital' = UpdatePeak(capital + profit)
        /\ trades_today' = trades_today + 1
        /\ trade_history' = Append(trade_history,
               WinRecord(position_size, profit, final_profit_pct,
                         confidence, regime))
        /\ op' = "win"

\* mutant: the losing branch does not count the trade
Loss_Uncounted(signal) ==
    LET position_size == calculate_position_size(signal)
        confidence == Get(signal, "ai_confidence", 5000)
        regime == Get(signal, "regime", "unknown")
        adjusted_loss_pct == AdjustedLossPct(regime)
        loss == Mul(position_size, adjusted_loss_pct)
    IN  /\ capital' = capital - loss
        /\ daily_profit' = daily_profit - loss
        /\ peak_capital' = peak_capital
        /\ trades_today' = trades_today
        /\ trade_history' = Append(trade_history,
               LossRecord(position_size, loss, adjusted_loss_pct,
                          confidence, regime))
        /\ op' = "loss"

\* the losing branch
Loss(signal) ==
    LET position_size == calculate_position_size(signal)
        confidence == Get(signal, "ai_confidence", 5000)
        regime == Get(signal, "regime", "unknown")
        adjusted_loss_pct == AdjustedLossPct(regime)
        loss == Mul(position_size, adjusted_loss_pct)
    IN  /\ capital' = capital - loss
        /\ daily_profit' = daily_profit - loss
        /\ peak_capital' = peak_capital
        /\ trades_today' = trades_today + 1
        /\ trade_history' = Append(trade_history,
               LossRecord(position_size, loss, adjusted_loss_pct,
                          confidence, regime))
        /\ op' = "loss"

\* the execution of a trade: random.random() < success_prob decides
Execute(signal) ==
    LET success_prob == SuccessProb(Get(signal, "ai_confidence", 5000),
                                    Get(signal, "regime", "unknown"))
    IN  /\ Len(trade_history) < MaxHistory
        /\ \/ success_prob > 0 /\ \E draw \in ProfitDraws : Win(signal, draw)
           \/ success_prob < BP /\ Loss(signal)
        /\ sig' = NoSignal
        /\ ret' = 0
        /\ UNCHANGED <<cfg, initial_capital, daily_pnl_history,
                       best_daily_return, worst_daily_return, mark>>

trade(signal) ==
    IF LimitReached THEN Return("limit")
    ELSE IF TargetAchieved /\ ~MaxTargetAchieved THEN Return("min_target")
    ELSE IF MaxTargetAchieved THEN Return("max_target")
    ELSE IF DrawdownExceeded THEN Return("drawdown")
    ELSE IF ~check_trade_conditions(signal) THEN Return("skipped")
    ELSE Execute(signal)

Trade == \E signal \in TradeSignals : trade(signal)

(***************************************************************************)
(* reset_daily_stats                                                       *)
(***************************************************************************)
\* daily_return = self.daily_profit / self.capital
DailyReturn == (daily_profit * BP) \div capital

DailySummary(daily_return) ==
    [return |-> daily_return, profit |-> daily_profit, trades |-> trades_today]

\* mutant: the best return is overwritten by the return of the day
UpdateBest_Overwrite(daily_return) == daily_return

UpdateBest(daily_return) == Max(best_daily_return, daily_return)

UpdateWorst(daily_return) == Min(worst_daily_return, daily_return)

reset_daily_stats ==
    /\ Len(daily_pnl_history) < MaxDays
    /\ IF capital > 0
       THEN /\ daily_pnl_history' =
                   Append(daily_pnl_history, DailySummary(DailyReturn))
            /\ best_daily_return' = UpdateBest(DailyReturn)
            /\ worst_daily_return' = UpdateWorst(DailyReturn)
       ELSE UNCHANGED <<daily_pnl_history, best_daily_return,
                        worst_daily_return>>
    /\ daily_profit' = 0
    /\ trades_today' = 0
    /\ mark' = Len(trade_history)
    /\ op' = "reset"
    /\ sig' = NoSignal
    /\ ret' = 0
    /\ UNCHANGED <<cfg, capital, initial_capital, peak_capital, trade_history>>

(***************************************************************************)
(* a call of calculate_position_size by the driver: no assignment          *)
(***************************************************************************)
SizeCall ==
    \E signal \in SizeSignals :
        /\ op' = "size"
        /\ sig' = signal
        /\ ret' = calculate_position_size(signal)
        /\ UNCHANGED <<cfg, state, mark>>

Next == Trade \/ reset_daily_stats \/ SizeCall

Spec == Init /\ [][Next]_vars

(***************************************************************************)
(* Properties                                                              *)
(***************************************************************************)
\* the outcomes of trade(), as recorded in op by the call
TradeOutcomes ==
    {"limit", "min_target", "max_target", "drawdown", "skipped", "win", "loss"}

\* the fields of the state that the properties of trade() name
tradeState == <<capital, daily_profit, trades_today, peak_capital, trade_history>>

\* C1: after every operation, peak_capital >= capital.
C1_PeakAtLeastCapital == peak_capital >= capital

\* a win has raised the peak and a later loss has left capital below it
C1_Witness ==
    /\ op = "loss"
    /\ peak_capital > initial_capital
    /\ capital < peak_capital

\* C2: a call of trade() in a state where trades_today = max_trades_daily
\* returns the limit outcome and changes none of capital, daily_profit,
\* trades_today, peak_capital and trade_history, whatever the signal.
C2_LimitNoMutation ==
    [][(trades_today = cfg.max_trades_daily /\ op' \in TradeOutcomes)
          => (op' = "limit" /\ UNCHANGED tradeState)]_vars

\* trade() has returned the limit outcome with the counter at the limit
C2_Witness ==
    /\ op = "limit"
    /\ trades_today = cfg.max_trades_daily
    /\ Len(trade_history) = cfg.max_trades_daily

\* C3, as stated: a call of trade() in a state where current_drawdown >
\* max_drawdown returns the drawdown outcome and changes nothing.
C3_Original ==
    [][(CurrentDdAbove(cfg.max_dd) /\ op' \in TradeOutcomes)
          => (op' = "drawdown" /\ UNCHANGED tradeState)]_vars

\* C3, amended: a call of trade() in a state where current_drawdown >
\* max_drawdown changes nothing, and it returns the drawdown outcome unless
\* one of the gates tested before it applies: the trade limit (then the limit
\* outcome) or a daily target (then a target outcome).
C3_DrawdownNoMutation ==
    [][(CurrentDdAbove(cfg.max_dd) /\ op' \in TradeOutcomes)
          => /\ UNCHANGED tradeState
             /\ \/ op' = "drawdown"
                \/ op' = "limit" /\ trades_today >= cfg.max_trades_daily
                \/ /\ op' \in {"min_target", "max_target"}
                   /\ DailyReturnAtLeast(10, cfg.target_return)]_vars

\* trade() has returned the drawdown outcome after a loss took the drawdown
\* over the limit
C3_Witness ==
    /\ op = "drawdown"
    /\ CurrentDdAbove(cfg.max_dd)
    /\ trades_today < cfg.max_trades_daily
    /\ trade_history # <<>>

\* every gate of trade() lets this signal through to the execution
CanExecute(signal) ==
    /\ ~(trades_today >= cfg.max_trades_daily)
    /\ ~DailyReturnAtLeast(10, cfg.target_return)
    /\ ~CurrentDdAbove(cfg.max_dd)
    /\ check_trade_conditions(signal)

\* C4: after trade() has returned the minimum-target outcome, a later call of
\* trade() in the same day can still execute a trade: the state, which no
\* call but a trade or a reset changes, lets some accepted signal through.
C4_MinTargetDoesNotBlock ==
    op = "min_target" => \E signal \in TradeSignals : CanExecute(signal)

\* the signed amount of a trade record
SignedAmount(record) ==
    IF record.type = "WIN" THEN record.profit ELSE 0 - record.loss

RECURSIVE SignedSum(_, _)
\* the sum of the signed amounts of the records after the first `from`
SignedSum(history, from) ==
    IF from >= Len(history) THEN 0
    ELSE SignedAmount(history[from + 1]) + SignedSum(history, from + 1)

\* C5: daily_profit is the sum of the signed amounts of the records appended
\* to trade_history since the last reset_daily_stats() (or the construction).
C5_DailyProfitIsSum == daily_profit = SignedSum(trade_history, mark)

\* a reset, and then a win and a loss
C5_Witness ==
    /\ mark > 0
    /\ Len(trade_history) >= mark + 2
    /\ \E i, j \in (mark + 1)..Len(trade_history) :
          trade_history[i].type = "WIN" /\ trade_history[j].type = "LOSS"

\* C6: after every operation trades_today <= max_trades_daily, at most max_trades_daily records are
\* appended between two resets, and only reset_daily_stats() decreases
\* trades_today.
C6_TradeLimit ==
    [][/\ trades_today' <= cfg.max_trades_daily
       /\ Len(trade_history') - mark' <= cfg.max_trades_daily
       /\ trades_today' < trades_today => op' = "reset"]_vars

\* the limit is reached again after a reset
C6_Witness ==
    /\ mark > 0
    /\ trades_today = cfg.max_trades_daily
    /\ Len(trade_history) - mark = cfg.max_trades_daily

\* C7: a reset_daily_stats() with no trade since the previous one leaves
\* daily_profit = 0 and trades_today = 0, appends at most one entry, of return
\* 0 and of 0 trades, and changes neither best_daily_return nor
\* worst_daily_return.
C7_ResetIdempotent ==
    [][(/\ Len(daily_pnl_history) >= 1
        /\ mark = Len(trade_history)
        /\ daily_profit = 0 /\ trades_today = 0
        /\ op' = "reset")
          => /\ daily_profit' = 0
             /\ trades_today' = 0
             /\ Len(daily_pnl_history') <= Len(daily_pnl_history) + 1
             /\ \A i \in (Len(daily_pnl_history) + 1)..Len(daily_pnl_history') :
                   /\ daily_pnl_history'[i].return = 0
                   /\ daily_pnl_history'[i].trades = 0
             /\ UNCHANGED <<best_daily_return, worst_daily_return>>]_vars

\* two resets in a row after a day that had a gain
C7_Witness ==
    /\ op = "reset"
    /\ Len(daily_pnl_history) = 2
    /\ daily_pnl_history[1].return > 0
    /\ daily_pnl_history[2].trades = 0
    /\ best_daily_return > 0

ReferenceSize(signal) ==
    LET product ==
            Mul(Mul(Mul(Mul(Mul(BaseSize(signal), ConfidenceMult(signal)),
                            DailyMult), DdMult), PeakMult),
                SizeReductionFactor)
    IN  Max(Min(product, Mul(capital, MaxSizeFraction)),
            Mul(capital, MinSizeFraction))

\* C9: calculate_position_size returns the reference value, in which the
\* daily-target multiplier takes part.
C9_SizeIsReference == op = "size" => ret = ReferenceSize(sig)

\* C10: once current_drawdown > max_drawdown, it stays so, and capital,
\* peak_capital and trade_history never change again, whatever trade() and
\* reset_daily_stats() calls follow.
C10_DrawdownAbsorbing ==
    [][CurrentDdAbove(cfg.max_dd)
          => /\ UNCHANGED <<capital, peak_capital, trade_history>>
             /\ CurrentDdAbove(cfg.max_dd)']_vars

\* a reset after the stop, and then a call of trade() that is still refused
C10_Witness ==
    /\ op = "drawdown"
    /\ CurrentDdAbove(cfg.max_dd)
    /\ mark = Len(trade_history)
    /\ Len(daily_pnl_history) >= 1
    /\ trades_today = 0

====
